---- MODULE Spec2Model ----
(***************************************************************************)
(* A model of the generic XPath scraper: scrape_generic (scraper.py) and   *)
(* the batch loop of the Streamlit front end (app.py).                     *)
(*                                                                         *)
(* Python strings are sequences of one-character strings, so that          *)
(* str.strip() and str.lower() are computed and not assumed.  Python       *)
(* values that share a container (the entries of the result dict) carry a  *)
(* type tag.                                                               *)
(***************************************************************************)
EXTENDS Integers, Sequences, FiniteSets, TLC

\* ------------------------------------------------------------------ bounds
MaxUrls   == 2    \* lines of the URL text area
MaxFields == 2    \* field definitions of one run
MaxNodes  == 3    \* nodes one XPath evaluation returns

\* ------------------------------------------------------- python values
PyNone    == [t |-> "None"]
PyStr(s)  == [t |-> "str", v |-> s]
PyList(l) == [t |-> "list", v |-> l]
PyDict(d) == [t |-> "dict", v |-> d]

\* bool(x) of a None-or-string value
Truthy(x) == x.t = "str" /\ x.v # <<>>

\* x or y
PyOr(x, y) == IF Truthy(x) THEN x ELSE y

EmptyDict == [x \in {} |-> PyNone]

\* d[key] = val on a dict
DictSet(d, key, val) == [x \in (DOMAIN d) \cup {key} |-> IF x = key THEN val ELSE d[x]]

\* d.get(key)
DictGet(d, key) == IF key \in DOMAIN d THEN d[key] ELSE PyNone

\* ------------------------------------------------------------- strings
IsSpace(c) == c = " "

RECURSIVE LStrip(_)
LStrip(s) == IF s # <<>> /\ IsSpace(Head(s)) THEN LStrip(Tail(s)) ELSE s

RECURSIVE RStrip(_)
RStrip(s) ==
  IF s # <<>> /\ IsSpace(s[Len(s)]) THEN RStrip(SubSeq(s, 1, Len(s) - 1)) ELSE s

\* str.strip()
Strip(s) == RStrip(LStrip(s))

UpperCase == <<"A","B","C","D","E","F","G","H","I","J","K","L","M",
               "N","O","P","Q","R","S","T","U","V","W","X","Y","Z">>
LowerCase == <<"a","b","c","d","e","f","g","h","i","j","k","l","m",
               "n","o","p","q","r","s","t","u","v","w","x","y","z">>

LowerChar(c) ==
  IF \E n \in DOMAIN UpperCase : UpperCase[n] = c
  THEN LowerCase[CHOOSE n \in DOMAIN UpperCase : UpperCase[n] = c]
  ELSE c

\* str.lower()
Lower(s) == [n \in DOMAIN s |-> LowerChar(s[n])]

\* the string literals of scrape_generic
K_url      == <<"u","r","l">>
K_debug    == <<"_","d","e","b","u","g">>
K_field    == <<"f","i","e","l","d">>
T_single   == <<"s","i","n","g","l","e">>
T_multiple == <<"m","u","l","t","i","p","l","e">>
T_image    == <<"i","m","a","g","e">>

\* --------------------------------------------------------------- nodes
\* What root.xpath() returns is a list of nodes.  A node is an lxml element
\* (text, attrib), a requests-html element (text, attrs) or a plain string
\* (an attribute or text selection such as //img/@src).
StrNode(s) ==
  [hasText |-> FALSE, text |-> PyNone, hasAttrib |-> FALSE, attrib |-> EmptyDict,
   hasAttrs |-> FALSE, attrs |-> EmptyDict, str |-> s]

LxmlElem(text, attrib) ==
  [hasText |-> TRUE, text |-> text, hasAttrib |-> TRUE, attrib |-> attrib,
   hasAttrs |-> FALSE, attrs |-> EmptyDict, str |-> <<>>]

HtmlElem(text, attrs) ==
  [hasText |-> TRUE, text |-> text, hasAttrib |-> FALSE, attrib |-> EmptyDict,
   hasAttrs |-> TRUE, attrs |-> attrs, str |-> <<>>]

\* (getattr(elem, "text", "") or "").strip() if hasattr(elem, "text")
\* else str(elem).strip()
NodeText(elem) ==
  IF elem.hasText THEN Strip(PyOr(elem.text, PyStr(<<>>)).v) ELSE Strip(elem.str)

\* text or None
TextOrNone(text) == IF text # <<>> THEN PyStr(text) ELSE PyNone

\* attrs.update(d): the entries of d replace those of attrs
DictUpdate(attrs, d) ==
  [x \in (DOMAIN attrs) \cup (DOMAIN d) |-> IF x \in DOMAIN d THEN d[x] ELSE attrs[x]]

\* the attrs mapping the image branch builds from attrib and attrs
MergedAttrs(elem) ==
  LET a1 == IF elem.hasAttrib THEN DictUpdate(EmptyDict, elem.attrib) ELSE EmptyDict
  IN  IF elem.hasAttrs THEN DictUpdate(a1, elem.attrs) ELSE a1

\* attrs.get("src") or attrs.get("data-src") or attrs.get("data-image")
\* or attrs.get("href")
AttrChain(attrs) ==
  PyOr(DictGet(attrs, "src"),
       PyOr(DictGet(attrs, "data-src"),
            PyOr(DictGet(attrs, "data-image"), DictGet(attrs, "href"))))

\* ------------------------------------------------- field configuration
\* A field mapping is a record whose name, type and selector are a string
\* or None (a missing key reads as None through field.get).

\* str(field.get("name") or "").strip() or "field"
ResolveName(field) ==
  PyOr(PyStr(Strip(PyOr(field.name, PyStr(<<>>)).v)), PyStr(K_field)).v

\* mutant: the default type is multiple
ResolveTypeDefaultMultiple(field) == Lower(PyOr(field.type, PyStr(T_multiple)).v)

\* str(field.get("type") or "single").lower()
ResolveType(field) == Lower(PyOr(field.type, PyStr(T_single)).v)

\* str(field.get("selector") or "").strip()
ResolveXPath(field) == Strip(PyOr(field.selector, PyStr(<<>>)).v)

\* ------------------------------------------------------ the three types
\* the loop "for elem in elems: ... if text: items.append(text)"
RECURSIVE MultipleLoop(_, _)
MultipleLoop(elems, items) ==
  IF elems = <<>> THEN items
  ELSE LET text == NodeText(Head(elems))
       IN  MultipleLoop(Tail(elems), IF text # <<>> THEN Append(items, text) ELSE items)

\* mutant: the empty texts are kept
MultipleItemsUnfiltered(elems) == [n \in DOMAIN elems |-> NodeText(elems[n])]

MultipleItems(elems) == MultipleLoop(elems, <<>>)

\* sample of the multiple branch
MultipleSample(elems) == IF elems # <<>> THEN PyStr(NodeText(elems[1])) ELSE PyNone

\* value of the image branch
ImageValue(nodes) ==
  IF nodes = <<>> THEN PyNone
  ELSE LET elem == nodes[1]
       IN  IF ~elem.hasAttrib /\ ~elem.hasAttrs
           THEN TextOrNone(Strip(elem.str))
           ELSE LET value == AttrChain(MergedAttrs(elem))
                IN  IF value = PyNone
                    THEN TextOrNone(Strip(PyOr(elem.text, PyStr(<<>>)).v))
                    ELSE value

\* value of the single (default) branch
SingleValue(nodes) == IF nodes # <<>> THEN TextOrNone(NodeText(nodes[1])) ELSE PyNone

FieldDebug(field_type, xpath, nodes, sample) ==
  [type |-> field_type, xpath |-> xpath, match_count |-> Len(nodes), sample |-> sample]

\* one iteration of "for field in fields" (scraper.py 60-159): the dict
\* entries it leaves, the nodes it matched, and whether root.xpath raised.
\* doc maps an XPath to what root.xpath returns for it on this page.
FieldStep(field, doc, d, fd, nd, dbg) ==
  LET name       == ResolveName(field)
      field_type == ResolveType(field)
      xpath      == ResolveXPath(field)
      same       == [raised |-> FALSE, data |-> d, field_debug |-> fd, nodes |-> nd]
  IN  IF xpath = <<>>
      THEN [same EXCEPT !.data = DictSet(d, name, PyNone)]
      ELSE IF doc[xpath].raises
      THEN [same EXCEPT !.raised = TRUE]
      ELSE LET found == doc[xpath].nodes
           IN  IF field_type = T_multiple
               THEN [raised |-> FALSE,
                     data |-> DictSet(d, name, PyList(MultipleItems(found))),
                     field_debug |->
                       IF dbg
                       THEN DictSet(fd, name,
                              FieldDebug(field_type, xpath, found, MultipleSample(found)))
                       ELSE fd,
                     nodes |-> found]
               ELSE IF field_type = T_image
               THEN [raised |-> FALSE,
                     data |-> DictSet(d, name, ImageValue(found)),
                     field_debug |->
                       IF dbg
                       THEN DictSet(fd, name,
                              FieldDebug(field_type, xpath, found, ImageValue(found)))
                       ELSE fd,
                     nodes |-> found]
               ELSE [raised |-> FALSE,
                     data |-> IF found # <<>>
                              THEN DictSet(d, name, SingleValue(found))
                              ELSE d,
                     field_debug |->
                       IF dbg
                       THEN DictSet(fd, name,
                              FieldDebug(field_type, xpath, found, SingleValue(found)))
                       ELSE fd,
                     nodes |-> found]

\* mutant: the error is printed whatever the debug flag is
ExceptClausePrints(dbg, dinfo, out, url, e) ==
  [debug_info |-> dinfo, log |-> Append(out, [url |-> url, error |-> e])]

\* mutant: with debug the error is recorded and printed as well
ExceptClauseBoth(dbg, dinfo, out, url, e) ==
  [debug_info |-> IF dbg THEN ("error" :> e) @@ dinfo ELSE dinfo,
   log |-> Append(out, [url |-> url, error |-> e])]

\* the except clause (scraper.py 161-165): where the error goes
ExceptClause(dbg, dinfo, out, url, e) ==
  IF dbg
  THEN [debug_info |-> ("error" :> e) @@ dinfo, log |-> out]
  ELSE [debug_info |-> dinfo, log |-> Append(out, [url |-> url, error |-> e])]

\* the end of scrape_generic (scraper.py 167-171): the dict it returns
ReturnValue(dbg, d, dinfo, fd) ==
  IF dbg THEN DictSet(d, K_debug, PyDict(("fields" :> fd) @@ dinfo)) ELSE d

\* urls = [url.strip() for url in urls_input.splitlines() if url.strip()]
StripLines(lines) ==
  LET kept == SelectSeq(lines, LAMBDA l : Strip(l) # <<>>)
  IN  [n \in DOMAIN kept |-> Strip(kept[n])]

\* active_fields: the fields with a non-empty selector (app.py 138-142)
ActiveFields(configs) ==
  SelectSeq(configs, LAMBDA f : Strip(PyOr(f.selector, PyStr(<<>>)).v) # <<>>)

\* ---------------------------------------------------------------- state
VARIABLES
  urls_input,     \* the lines of the URL text area
  field_configs,  \* the configured fields
  render_js,      \* "Render JavaScript?"
  debug_enabled,  \* "Show debug information"
  web,            \* what the n-th fetch meets: the response and its document
  urls,           \* the URLs of the run
  active_fields,  \* the fields handed to scrape_generic
  results,        \* the list of page results
  log,            \* what print() wrote
  pc,             \* where the run stands
  i,              \* the URL being scraped (1-based)
  k,              \* the field the loop of scrape_generic stands at (1-based)
  data,           \* scrape_generic's data
  debug_info,     \* scrape_generic's debug_info
  field_debug,    \* scrape_generic's field_debug
  nodes,          \* the nodes the last root.xpath returned
  error           \* the exception raised in this call, "None" if none

inputs == <<urls_input, field_configs, render_js, debug_enabled, web>>
run    == <<urls, active_fields, results, log>>
locals == <<i, k, data, debug_info, field_debug, nodes, error>>
vars   == <<inputs, run, pc, locals>>

\* --------------------------------------------------------------- inputs
SeqsUpTo(S, n) == UNION {[1..m -> S] : m \in 0..n}

Lines == {<<" ","u">>, <<"v"," ">>, <<" ">>}

SelBlank == PyStr(<<" ">>)
SelA     == PyStr(<<" ","/","/","a">>)
SelB     == PyStr(<<"/","/","b"," ">>)
XPaths   == {Strip(SelA.v), Strip(SelB.v)}

NameT == PyStr(<<" ","t"," ">>)
Names == {PyNone, PyStr(<<" ">>), NameT, PyStr(K_url), PyStr(K_debug)}
Types == {PyNone, PyStr(T_single), PyStr(T_multiple), PyStr(T_image),
          PyStr(<<"I","M","A","G","E">>), PyStr(<<"l","i","s","t">>)}

Field(name, type, selector) == [name |-> name, type |-> type, selector |-> selector]

\* every name on a matching single field; every type on a blank and on a
\* non-blank selector; a second selector for single and multiple
FieldConfigs ==
  {Field(n, PyStr(T_single), SelA) : n \in Names}
  \cup {Field(NameT, t, sel) : t \in Types, sel \in {SelBlank, SelA}}
  \cup {Field(NameT, t, SelB) : t \in {PyStr(T_single), PyStr(T_multiple)}}
  \cup {Field(NameT, PyStr(T_multiple), PyNone), Field(PyNone, PyNone, SelA)}

\* the default configuration of the front end (app.py 14-27)
DefaultFields ==
  <<Field(PyStr(<<"T","i","t","l","e">>), PyStr(T_single), SelA),
    Field(PyStr(<<"L","i","s","t"," ","i","t","e","m","s">>), PyStr(T_multiple), SelB)>>

Texts == {PyNone, PyStr(<<" ">>), PyStr(<<" ","x">>), PyStr(<<"y"," ">>)}

NoAttrs == EmptyDict

TextNodes ==
  {LxmlElem(t, NoAttrs) : t \in Texts} \cup {StrNode(<<" ">>), StrNode(<<" ","z"," ">>)}

AttrNames == {"src", "data-src", "data-image", "href"}

\* an attribute is absent, empty, or a value that names the attribute
AttrValue(a) ==
  CASE a = "src"        -> PyStr(<<"s">>)
    [] a = "data-src"   -> PyStr(<<"d">>)
    [] a = "data-image" -> PyStr(<<"i">>)
    [] a = "href"       -> PyStr(<<"h">>)

AttrDicts ==
  UNION {UNION {{[a \in present |-> IF a \in empty THEN PyStr(<<>>) ELSE AttrValue(a)]}
                : empty \in SUBSET present}
         : present \in SUBSET AttrNames}

ImageTexts == {PyNone, PyStr(<<" ">>), PyStr(<<" ","x">>)}

ImageNodes ==
  {LxmlElem(t, a) : t \in ImageTexts, a \in AttrDicts}
  \cup {HtmlElem(t, a) : t \in ImageTexts, a \in AttrDicts}
  \cup {[LxmlElem(PyStr(<<"x">>), ("src" :> PyStr(<<"s">>)))
           EXCEPT !.hasAttrs = TRUE, !.attrs = ("src" :> PyStr(<<"r">>))]}
  \cup {StrNode(<<>>), StrNode(<<" ">>), StrNode(<<" ","z"," ">>)}

Matched(ns) == [raises |-> FALSE, nodes |-> ns]
Raises      == [raises |-> TRUE, nodes |-> <<>>]

H1 == LxmlElem(PyStr(<<" ","x">>), ("src" :> PyStr(<<"s">>)))

\* the outcomes of an evaluation the field and batch runs draw from
FewOutcomes == {Raises, Matched(<<>>), Matched(<<H1>>)}

Page(get, status, render, doc) ==
  [get |-> get, status |-> status, render |-> render, final_url |-> <<"w">>, doc |-> doc]

OkPage(doc) == Page("ok", 200, "ok", doc)

BatchPages ==
  {Page("ConnectionError", 0, "ok", [x \in XPaths |-> Raises]),
   Page("ok", 200, "TimeoutError", [x \in XPaths |-> Matched(<<H1>>)]),
   Page("ok", 404, "ok", [x \in XPaths |-> Matched(<<H1>>)]),
   Page("ok", 200, "ok", [x \in XPaths |-> IF x = Strip(SelB.v) THEN Raises ELSE Matched(<<H1>>)])}

Input(lines, configs, js, dbg, pages) ==
  /\ urls_input = lines
  /\ field_configs = configs
  /\ render_js = js
  /\ debug_enabled = dbg
  /\ web = pages

\* many URLs, every pattern of failures, a few field lists
BatchInputs ==
  \E lines \in SeqsUpTo(Lines, MaxUrls) :
    \E configs \in {DefaultFields, <<Field(PyStr(K_url), PyStr(T_single), SelA)>>},
       js \in BOOLEAN, dbg \in BOOLEAN,
       pages \in [1..Len(StripLines(lines)) -> BatchPages] :
      Input(lines, configs, js, dbg, pages)

\* one URL, every list of field configurations, a few documents
FieldInputs ==
  \E configs \in SeqsUpTo(FieldConfigs, MaxFields), dbg \in BOOLEAN,
     doc \in [XPaths -> FewOutcomes] :
    Input(<<<<"u">>>>, configs, FALSE, dbg, <<OkPage(doc)>>)

\* one URL, one field of every type, every list of matched nodes
NodeLists ==
  SeqsUpTo(TextNodes, MaxNodes)
  \cup {<<n>> : n \in ImageNodes} \cup {<<n, H1>> : n \in ImageNodes}

NodeInputs ==
  \E t \in Types, dbg \in BOOLEAN, ns \in NodeLists :
    Input(<<<<"u">>>>, <<Field(NameT, t, SelA)>>, FALSE, dbg,
          <<OkPage([x \in XPaths |-> Matched(ns)])>>)

Init ==
  /\ (BatchInputs \/ FieldInputs \/ NodeInputs)
  /\ urls = <<>>
  /\ active_fields = <<>>
  /\ results = <<>>
  /\ log = <<>>
  /\ pc = "idle"
  /\ i = 1
  /\ k = 1
  /\ data = EmptyDict
  /\ debug_info = EmptyDict
  /\ field_debug = EmptyDict
  /\ nodes = <<>>
  /\ error = "None"

\* -------------------------------------------------------------- actions
\* the Scrape button (app.py 131-144)
ScrapeClicked ==
  /\ pc = "idle"
  /\ urls' = StripLines(urls_input)
  /\ active_fields' = ActiveFields(field_configs)
  /\ results' = <<>>
  /\ i' = 1
  /\ pc' = "loop"
  /\ UNCHANGED <<inputs, log, k, data, debug_info, field_debug, nodes, error>>

\* a direct call of scrape_generic per URL (scraper.py 9-14): the field list
\* is handed over as it is, blank selectors included, as scrape_recipe
\* hands its own (scraper.py 185-203)
CallScrapeGeneric ==
  /\ pc = "idle"
  /\ urls' = StripLines(urls_input)
  /\ active_fields' = field_configs
  /\ results' = <<>>
  /\ i' = 1
  /\ pc' = "loop"
  /\ UNCHANGED <<inputs, log, k, data, debug_info, field_debug, nodes, error>>

\* the next URL of "for url in urls" enters scrape_generic (scraper.py 34-39)
StartPage ==
  /\ pc = "loop"
  /\ i <= Len(urls)
  /\ data' = (K_url :> PyStr(urls[i]))
  /\ debug_info' = EmptyDict
  /\ field_debug' = EmptyDict
  /\ nodes' = <<>>
  /\ error' = "None"
  /\ k' = 1
  /\ pc' = "get"
  /\ UNCHANGED <<inputs, run, i>>

\* response = session.get(url), and the debug entries of the response
\* (scraper.py 42-47)
SessionGet ==
  /\ pc = "get"
  /\ IF web[i].get # "ok"
     THEN /\ error' = web[i].get
          /\ pc' = "except"
          /\ UNCHANGED debug_info
     ELSE /\ debug_info' =
               IF debug_enabled
               THEN [x \in {"status_code", "ok", "final_url"} |->
                       CASE x = "status_code" -> web[i].status
                         [] x = "ok"          -> web[i].status < 400
                         [] x = "final_url"   -> web[i].final_url]
               ELSE debug_info
          /\ pc' = IF render_js THEN "render" ELSE "fields"
          /\ UNCHANGED error
  /\ UNCHANGED <<inputs, run, i, k, data, field_debug, nodes>>

\* response.html.render(sleep=1, timeout=20) (scraper.py 49-51)
Render ==
  /\ pc = "render"
  /\ IF web[i].render # "ok"
     THEN error' = web[i].render /\ pc' = "except"
     ELSE pc' = "fields" /\ UNCHANGED error
  /\ UNCHANGED <<inputs, run, i, k, data, debug_info, field_debug, nodes>>

\* mutant: a field whose evaluation raises is skipped and the loop goes on
ExtractFieldSkipsFailure ==
  /\ pc = "fields"
  /\ k <= Len(active_fields)
  /\ LET step == FieldStep(active_fields[k], web[i].doc, data, field_debug, nodes,
                           debug_enabled)
     IN  /\ data' = step.data
         /\ field_debug' = step.field_debug
         /\ nodes' = step.nodes
         /\ k' = k + 1
         /\ UNCHANGED <<pc, error>>
  /\ UNCHANGED <<inputs, run, i, debug_info>>

\* one field of the loop (scraper.py 60-159)
ExtractField ==
  /\ pc = "fields"
  /\ k <= Len(active_fields)
  /\ LET step == FieldStep(active_fields[k], web[i].doc, data, field_debug, nodes,
                           debug_enabled)
     IN  IF step.raised
         THEN /\ error' = "XPathEvalError"
              /\ pc' = "except"
              /\ UNCHANGED <<k, data, field_debug, nodes>>
         ELSE /\ data' = step.data
              /\ field_debug' = step.field_debug
              /\ nodes' = step.nodes
              /\ k' = k + 1
              /\ UNCHANGED <<pc, error>>
  /\ UNCHANGED <<inputs, run, i, debug_info>>

\* except Exception as e (scraper.py 161-165)
Except ==
  /\ pc = "except"
  /\ LET h == ExceptClause(debug_enabled, debug_info, log, urls[i], error)
     IN  debug_info' = h.debug_info /\ log' = h.log
  /\ pc' = "return"
  /\ UNCHANGED <<inputs, urls, active_fields, results, i, k, data, field_debug, nodes, error>>

\* the loop over the fields ends without an exception
FieldsDone ==
  /\ pc = "fields"
  /\ k > Len(active_fields)
  /\ pc' = "return"
  /\ UNCHANGED <<inputs, run, locals>>

\* scrape_generic returns and the page's result is appended
\* (scraper.py 167-171, app.py 146-148)
Return ==
  /\ pc = "return"
  /\ data' = ReturnValue(debug_enabled, data, debug_info, field_debug)
  /\ results' = Append(results, data')
  /\ i' = i + 1
  /\ pc' = "loop"
  /\ UNCHANGED <<inputs, urls, active_fields, log, k, debug_info, field_debug, nodes, error>>

\* the loop over the URLs is over (app.py 150)
Finish ==
  /\ pc = "loop"
  /\ i > Len(urls)
  /\ pc' = "done"
  /\ UNCHANGED <<inputs, run, locals>>

Next ==
  \/ ScrapeClicked
  \/ CallScrapeGeneric
  \/ StartPage
  \/ SessionGet
  \/ Render
  \/ ExtractField
  \/ FieldsDone
  \/ Except
  \/ Return
  \/ Finish

Spec == Init /\ [][Next]_vars

\* ------------------------------------------------- reading the state
\* the loop has just finished a field without an exception
Extracted == pc = "fields" /\ k > 1

\* that field, its resolved name, type and XPath, and what the document
\* answers to the XPath
LastField == active_fields[k - 1]
LastName  == ResolveName(LastField)
LastType  == ResolveType(LastField)
LastXPath == ResolveXPath(LastField)
LastFound == web[i].doc[LastXPath].nodes

\* scrape_generic has returned for URL number i - 1
Returned == pc \in {"loop", "done"} /\ i > 1

\* evaluating field j of the page being scraped raises
Raising(j) ==
  /\ ResolveXPath(active_fields[j]) # <<>>
  /\ web[i].doc[ResolveXPath(active_fields[j])].raises

\* the exception page j meets, "None" if none, read off the inputs
Failure(j) ==
  IF web[j].get # "ok" THEN web[j].get
  ELSE IF render_js /\ web[j].render # "ok" THEN web[j].render
  ELSE IF \E f \in DOMAIN active_fields :
            /\ ResolveXPath(active_fields[f]) # <<>>
            /\ web[j].doc[ResolveXPath(active_fields[f])].raises
       THEN "XPathEvalError"
  ELSE "None"

\* absent: no entry, or None
Absent(d, key) == key \notin DOMAIN d \/ d[key] = PyNone

\* =============================================================== claims

\* C1: when the batch is over there is exactly one result per input URL, in
\* input order, and the j-th result's url is the j-th input URL, whatever
\* failed on the way.
C1_OneResultPerUrlInOrder ==
  pc = "done" =>
    /\ Len(results) = Len(urls)
    /\ \A j \in DOMAIN urls :
         K_url \in DOMAIN results[j] /\ results[j][K_url] = PyStr(urls[j])

\* C2: when session.get raises, the page still has a result: with debug it
\* is the url and a debug bundle that holds the error and an empty per-field
\* map, without debug it is the url alone.
C2_FetchFailureResult ==
  (Returned /\ web[i - 1].get # "ok") =>
    results[i - 1] =
      IF debug_enabled
      THEN (K_url :> PyStr(urls[i - 1]))
           @@ (K_debug :> PyDict([error |-> web[i - 1].get, fields |-> EmptyDict]))
      ELSE (K_url :> PyStr(urls[i - 1]))

\* C2 witness: a failed fetch under debug has returned a result with a bundle
C2_Witness ==
  /\ Returned
  /\ web[i - 1].get # "ok"
  /\ debug_enabled
  /\ K_debug \in DOMAIN results[i - 1]
  /\ "error" \in DOMAIN results[i - 1][K_debug].v

\* the messages print() has written for the failing pages among the first n
RECURSIVE Printed(_)
Printed(n) ==
  IF n = 0 THEN <<>>
  ELSE IF Failure(n) # "None"
       THEN Append(Printed(n - 1), [url |-> urls[n], error |-> Failure(n)])
       ELSE Printed(n - 1)

\* C9: an error of a page goes to one channel: with debug into the bundle's
\* error and nothing is printed, without debug one line is printed and the
\* result has no bundle; a bundle with its per-field map is attached
\* exactly when debug is on, whether the page failed or not.
C9_OneErrorChannel ==
  /\ debug_enabled => log = <<>>
  /\ pc \in {"loop", "done"} =>
       /\ ~debug_enabled => log = Printed(Len(results))
       /\ \A j \in DOMAIN results :
            LET r == results[j]
                bundled == K_debug \in DOMAIN r /\ r[K_debug].t = "dict"
            IN  /\ bundled <=> debug_enabled
                /\ bundled =>
                     /\ "fields" \in DOMAIN r[K_debug].v
                     /\ "error" \in DOMAIN r[K_debug].v <=> Failure(j) # "None"
                     /\ Failure(j) # "None" => r[K_debug].v["error"] = Failure(j)

\* C9 witness: without debug, one page of two failed and one line is printed
C9_Witness ==
  /\ pc = "done"
  /\ ~debug_enabled
  /\ Len(results) = 2
  /\ Len(log) = 1
  /\ Failure(2) # "None"

\* C10: the returned record's url entry is the url argument and, with debug,
\* its _debug entry is the bundle of the page, whatever the fields are
\* named.
C10_UrlAndDebugKept ==
  Returned =>
    /\ results[i - 1][K_url] = PyStr(urls[i - 1])
    /\ debug_enabled =>
         results[i - 1][K_debug] = PyDict(("fields" :> field_debug) @@ debug_info)

\* the first field of the page whose evaluation raises, one past the last
\* field if none does
FirstRaising ==
  IF \E j \in DOMAIN active_fields : Raising(j)
  THEN CHOOSE j \in DOMAIN active_fields :
         Raising(j) /\ \A h \in 1..(j - 1) : ~Raising(h)
  ELSE Len(active_fields) + 1

\* field j writes an entry of data when it is evaluated
Writes(j) ==
  \/ ResolveXPath(active_fields[j]) = <<>>
  \/ ResolveType(active_fields[j]) \in {T_multiple, T_image}
  \/ web[i].doc[ResolveXPath(active_fields[j])].nodes # <<>>

\* the page was fetched (and rendered) and the loop over the fields is over
FieldsOver == pc = "return" /\ error \in {"None", "XPathEvalError"}

\* C3 as stated: a field whose evaluation raises does not keep the fields
\* after it from being evaluated and recorded.
C3_FailureKeepsLaterFields ==
  FieldsOver =>
    \A j \in DOMAIN active_fields :
      ((\E h \in 1..(j - 1) : Raising(h)) /\ ~Raising(j)
         /\ ResolveXPath(active_fields[j]) # <<>>) =>
        /\ debug_enabled => ResolveName(active_fields[j]) \in DOMAIN field_debug
        /\ ResolveType(active_fields[j]) \in {T_multiple, T_image} =>
             ResolveName(active_fields[j]) \in DOMAIN data

\* C3 as amended: the fields are evaluated in order up to the first one whose
\* evaluation raises; the fields before it keep their entries, that field
\* and the fields after it are not evaluated, and the failure is the page's.
\* With no raising field every field is evaluated.
C3_FailureIsPageLevel ==
  FieldsOver =>
    /\ k = FirstRaising
    /\ error = "XPathEvalError" <=> FirstRaising <= Len(active_fields)
    /\ DOMAIN data =
         {K_url} \cup {ResolveName(active_fields[j]) :
                         j \in {h \in 1..(FirstRaising - 1) : Writes(h)}}
    /\ debug_enabled =>
         DOMAIN field_debug =
           {ResolveName(active_fields[j]) :
              j \in {h \in 1..(FirstRaising - 1) : ResolveXPath(active_fields[h]) # <<>>}}

\* C3 witness: the first of two fields raised and the second, whose own
\* evaluation would not raise, was never evaluated
C3_Witness ==
  /\ FieldsOver
  /\ error = "XPathEvalError"
  /\ debug_enabled
  /\ Len(active_fields) = 2
  /\ k = 1
  /\ ~Raising(2)
  /\ ResolveXPath(active_fields[2]) # <<>>
  /\ field_debug = EmptyDict

\* C4: a field whose selector trims to empty raises nothing, its value is
\* absent (the empty list for type multiple), and with debug it has a
\* FieldDebug entry with match_count 0 and no sample.
C4_BlankSelector ==
  (Extracted /\ LastXPath = <<>>) =>
    /\ IF LastType = T_multiple
       THEN LastName \in DOMAIN data /\ data[LastName] = PyList(<<>>)
       ELSE Absent(data, LastName)
    /\ debug_enabled =>
         /\ LastName \in DOMAIN field_debug
         /\ field_debug[LastName].match_count = 0
         /\ field_debug[LastName].sample = PyNone

\* the value a field produces from the nodes it matched
Produced(type, found) ==
  IF type = T_multiple THEN PyList(MultipleItems(found))
  ELSE IF type = T_image THEN ImageValue(found)
  ELSE SingleValue(found)

\* C5: when an earlier field has the same name, the entry under the name
\* (and its FieldDebug) is the one of the last field, a single field that
\* matches nothing included: its value is then absent.
C5_LastWriteWins ==
  (/\ Extracted
   /\ LastXPath # <<>>
   /\ LastName \notin {K_url, K_debug}
   /\ \E j \in 1..(k - 2) : ResolveName(active_fields[j]) = LastName) =>
    /\ IF Produced(LastType, LastFound) = PyNone
       THEN Absent(data, LastName)
       ELSE data[LastName] = Produced(LastType, LastFound)
    /\ debug_enabled =>
         /\ field_debug[LastName].type = LastType
         /\ field_debug[LastName].match_count = Len(LastFound)

\* the first of src, data-src, data-image, href that the element has
FirstPresent(attrs) ==
  IF "src" \in DOMAIN attrs THEN "src"
  ELSE IF "data-src" \in DOMAIN attrs THEN "data-src"
  ELSE IF "data-image" \in DOMAIN attrs THEN "data-image"
  ELSE "href"

\* C6: an image field whose first match is an element takes the first
\* present attribute of src, data-src, data-image, href; with none of them
\* the element's trimmed text; with that empty the value is absent, never
\* the empty string.  A plain-string first match gives the string trimmed,
\* or absent.
C6_ImagePriority ==
  (Extracted /\ LastXPath # <<>> /\ LastType = T_image /\ LastFound # <<>>) =>
    LET elem  == LastFound[1]
        attrs == MergedAttrs(elem)
    IN  /\ data[LastName] # PyStr(<<>>)
        /\ IF ~elem.hasAttrib /\ ~elem.hasAttrs
           THEN data[LastName] = TextOrNone(Strip(elem.str))
           ELSE IF DOMAIN attrs \cap AttrNames = {}
           THEN data[LastName] = TextOrNone(NodeText(elem))
           ELSE attrs[FirstPresent(attrs)] # PyStr(<<>>) =>
                  data[LastName] = attrs[FirstPresent(attrs)]

\* C7: a multiple field with a non-blank selector returns the trimmed texts
\* of the matched nodes that are not empty, in match order; with debug,
\* match_count counts every matched node and sample is the first node's
\* trimmed text.
C7_MultipleFiltersInOrder ==
  (Extracted /\ LastXPath # <<>> /\ LastType = T_multiple) =>
    LET texts == [n \in DOMAIN LastFound |-> NodeText(LastFound[n])]
    IN  /\ data[LastName] = PyList(SelectSeq(texts, LAMBDA x : x # <<>>))
        /\ debug_enabled =>
             /\ field_debug[LastName].match_count = Len(LastFound)
             /\ field_debug[LastName].sample =
                  IF LastFound = <<>> THEN PyNone ELSE PyStr(texts[1])

\* C7 witness: three nodes matched, the middle one empty, two texts kept
C7_Witness ==
  /\ Extracted
  /\ LastXPath # <<>>
  /\ LastType = T_multiple
  /\ debug_enabled
  /\ Len(LastFound) = 3
  /\ NodeText(LastFound[2]) = <<>>
  /\ data[LastName] = PyList(<<<<"x">>, <<"y">>>>)

\* what a single field leaves behind: the first match's trimmed text or
\* None; with no match no value of its own
SingleOutcome ==
  LET value == IF LastFound = <<>> THEN PyNone
               ELSE TextOrNone(NodeText(LastFound[1]))
  IN  /\ LastFound # <<>> => data[LastName] = value
      /\ (/\ LastFound = <<>>
          /\ LastName # K_url
          /\ \A j \in 1..(k - 2) : ResolveName(active_fields[j]) # LastName) =>
           Absent(data, LastName)
      /\ debug_enabled =>
           /\ field_debug[LastName].match_count = Len(LastFound)
           /\ field_debug[LastName].sample = value

\* a missing or blank name resolves to "field"
DefaultName ==
  (LastField.name = PyNone \/ Strip(LastField.name.v) = <<>>) => LastName = K_field

\* C8 as stated: a field with a missing or blank name, a missing type or a
\* type string that is none of single, multiple, image resolves its name to
\* "field" and yields what type single yields.
C8_UnknownTypeIsSingle ==
  (Extracted /\ LastXPath # <<>>) =>
    /\ DefaultName
    /\ (LastField.type = PyNone
          \/ LastField.type.v \notin {T_single, T_multiple, T_image}) => SingleOutcome

\* C8 as amended: the type string is compared in lower case.
C8_UnknownLowerTypeIsSingle ==
  (Extracted /\ LastXPath # <<>>) =>
    /\ DefaultName
    /\ (LastField.type = PyNone
          \/ Lower(LastField.type.v) \notin {T_single, T_multiple, T_image}) => SingleOutcome

\* C8 witness: a field without name and type got the first match's text
\* under "field"
C8_Witness ==
  /\ Extracted
  /\ LastField.name = PyNone
  /\ LastField.type = PyNone
  /\ LastFound # <<>>
  /\ data[K_field] = PyStr(<<"x">>)

====
